---- MODULE Spec2Model ----
(***************************************************************************)
(* A model of crop_monsters.py: the sheet slicer, the per-cell cleanup     *)
(* pipeline (remove_checkerboard_bg, auto_crop_alpha, crop_and_center),    *)
(* the egg SVG generator and the orchestration in main().                  *)
(*                                                                         *)
(* Three specifications share the variables:                               *)
(*   Spec       main() run step by step against an output directory        *)
(*   SpecCell   crop_and_center applied to one input cell image            *)
(*   SpecPixel  remove_checkerboard_bg applied to one pixel                *)
(***************************************************************************)
EXTENDS Integers, Sequences, FiniteSets, TLC

VARIABLES
    pc,            \* main(): position in the procedure
    dirExists,     \* OUTPUT_DIR exists
    files,         \* names of the regular files in OUTPUT_DIR
    dirs,          \* names of the sub-directories in OUTPUT_DIR
    contents,      \* what each file written in this run holds
    prior,         \* history: OUTPUT_DIR as main() found it
    pending,       \* the os.listdir() result still to be removed
    sheetIdx,      \* index into SHEETS of the sheet being processed (1-based)
    row_i,         \* loop variable of main()
    col_i,         \* loop variable of main()
    eggIdx,        \* position in EGG_COLORS.items() (1-based)
    rects,         \* history: rectangles cropped from the current sheet
    log,           \* history: remove and write operations on OUTPUT_DIR, in order
    failedSheet,   \* history: index of the sheet whose Image.open raised, or 0
    total_cropped, \* counter of main()
    egg_count,     \* counter of main()
    total_files,   \* len(os.listdir(OUTPUT_DIR)) of the summary, or -1
    cellIn,        \* SpecCell: the argument of crop_and_center
    cellOut,       \* SpecCell: what crop_and_center returned or raised
    px,            \* SpecPixel: a pixel of the argument of remove_checkerboard_bg
    pxOut          \* SpecPixel: the same pixel of its result

vars == <<pc, dirExists, files, dirs, contents, prior, pending, sheetIdx, row_i,
          col_i, eggIdx, rects, log, failedSheet, total_cropped, egg_count,
          total_files, cellIn, cellOut, px, pxOut>>

mainVars == <<pc, dirExists, files, dirs, contents, prior, pending, sheetIdx, row_i,
              col_i, eggIdx, rects, log, failedSheet, total_cropped, egg_count,
              total_files>>

cellVars == <<cellIn, cellOut>>

pixelVars == <<px, pxOut>>

(***************************************************************************)
(* Configuration tables                                                    *)
(***************************************************************************)

SHEETS ==
    << [file |-> "Gemini_Generated_Image_quvfovquvfovquvf.png",
        species |-> <<"spirit_dog", "chick_bird", "young_scale", "beetle">>],
       [file |-> "Gemini_Generated_Image_tt5yqbtt5yqbtt5y.png",
        species |-> <<"electric_mouse", "hard_crab", "mimic_lizard", "seed_ball">>],
       [file |-> "Gemini_Generated_Image_sug7njsug7njsug7.png",
        species |-> <<"jellyfish", "ore_giant", "jungle_cub", "sky_dragon">>],
       [file |-> "Gemini_Generated_Image_nbsvaxnbsvaxnbsv.png",
        species |-> <<"dune_bug", "sonic_bat", "snow_beast", "circuit_fish">>],
       [file |-> "Gemini_Generated_Image_tj9euntj9euntj9e.png",
        species |-> <<"mushroom", "crystal_beast", "nebula_fish", "clockwork_bird">>] >>

COL_SUFFIXES == <<"-2", "-a3", "-a4", "-a5", "-b3", "-b4", "-b5">>

\* EGG_COLORS.items() iterates in insertion order: the keys, in that order.
EGG_SPECIES ==
    << "spirit_dog", "chick_bird", "young_scale", "beetle", "electric_mouse",
       "hard_crab", "mimic_lizard", "seed_ball", "jellyfish", "ore_giant",
       "jungle_cub", "sky_dragon", "dune_bug", "sonic_bat", "snow_beast",
       "circuit_fish", "mushroom", "crystal_beast", "nebula_fish", "clockwork_bird" >>

Palette(p, s, t) == [primary |-> p, secondary |-> s, spot |-> t]

EGG_COLORS ==
    [sp \in {EGG_SPECIES[i] : i \in 1..Len(EGG_SPECIES)} |->
        CASE sp = "spirit_dog"     -> Palette("#C8B896", "#A08868", "#E8D8C0")
          [] sp = "chick_bird"     -> Palette("#A0C8E8", "#6898C0", "#C8E0F8")
          [] sp = "young_scale"    -> Palette("#4A90B8", "#2A6088", "#78B0D0")
          [] sp = "beetle"         -> Palette("#88A848", "#587828", "#A8C868")
          [] sp = "electric_mouse" -> Palette("#E8D040", "#B8A020", "#F8E878")
          [] sp = "hard_crab"      -> Palette("#B0886A", "#88603A", "#D0A88A")
          [] sp = "mimic_lizard"   -> Palette("#B8B8B8", "#888888", "#D8D8D8")
          [] sp = "seed_ball"      -> Palette("#68B048", "#408020", "#90D070")
          [] sp = "jellyfish"      -> Palette("#88C0E8", "#5090C0", "#B0D8F8")
          [] sp = "ore_giant"      -> Palette("#8888A0", "#585878", "#A8A8C0")
          [] sp = "jungle_cub"     -> Palette("#58A038", "#387018", "#80C060")
          [] sp = "sky_dragon"     -> Palette("#E88040", "#C06020", "#F8A868")
          [] sp = "dune_bug"       -> Palette("#C8A868", "#987838", "#E0C890")
          [] sp = "sonic_bat"      -> Palette("#9088B8", "#685898", "#B0A8D8")
          [] sp = "snow_beast"     -> Palette("#C0D8E8", "#90B0C8", "#E0F0FF")
          [] sp = "circuit_fish"   -> Palette("#4888B8", "#285888", "#70A8D8")
          [] sp = "mushroom"       -> Palette("#C07848", "#904818", "#E09870")
          [] sp = "crystal_beast"  -> Palette("#B090D0", "#8060A8", "#D0B8E8")
          [] sp = "nebula_fish"    -> Palette("#6070B8", "#384090", "#8898D8")
          [] sp = "clockwork_bird" -> Palette("#A0A0B0", "#707088", "#C0C0D0")]

(***************************************************************************)
(* Python float arithmetic.  The script computes int(n * (a / b)) in IEEE  *)
(* binary64 for small positive integers n, a, b.  a / b is rounded to the  *)
(* nearest 53-bit value m * 2^-k; the product is rounded again and int()   *)
(* truncates.  The operators below compute that result exactly, in         *)
(* integers: only the sign and size of the quotient's rounding error,      *)
(* err = m*b - a*2^k, taken modulo b, is needed.                           *)
(***************************************************************************)

RECURSIVE Pow2(_)
Pow2(k) == IF k <= 0 THEN 1 ELSE 2 * Pow2(k - 1)

RECURSIVE ExpUp(_, _, _)
\* the largest j >= 0 with b * 2^j <= a (for a >= b)
ExpUp(a, b, j) == IF b * Pow2(j + 1) <= a THEN ExpUp(a, b, j + 1) ELSE j

RECURSIVE ExpDown(_, _, _)
\* the smallest i >= 0 with a * 2^i >= b (for a < b)
ExpDown(a, b, i) == IF a * Pow2(i) < b THEN ExpDown(a, b, i + 1) ELSE i

\* the binary exponent j of a / b: 2^j <= a / b < 2^(j+1)
QuotExponent(a, b) == IF a >= b THEN ExpUp(a, b, 0) ELSE 0 - ExpDown(a, b, 0)

RECURSIVE ExpBelow(_, _)
\* the binary exponent of the doubles just below the integer N >= 1
ExpBelow(N, e) == IF Pow2(e + 1) < N THEN ExpBelow(N, e + 1) ELSE e

RECURSIVE ShiftMod(_, _, _)
\* (x * 2^k) mod b
ShiftMod(x, k, b) == IF k = 0 THEN x ELSE ShiftMod((2 * x) % b, k - 1, b)

MantissaBits == 52

\* err = m*b - a*2^k for m the 53-bit mantissa of the double a / b
QuotError(a, b) ==
    LET r == ShiftMod(a % b, MantissaBits - QuotExponent(a, b), b)
    IN  IF 2 * r > b THEN b - r ELSE 0 - r

\* int(n * (a / b)) as Python evaluates it, for integers n >= 0, a > 0, b > 0
TruncMulQuot(n, a, b) ==
    LET N   == (n * a) \div b
        err == QuotError(a, b)
        e   == IF N = 1 THEN 0 - 1 ELSE ExpBelow(N, 0)
    IN  IF (n * a) % b # 0 \/ n = 0 \/ err >= 0
        THEN N
        ELSE IF 2 * n * (0 - err) > b * Pow2(e - QuotExponent(a, b))
             THEN N - 1
             ELSE N

\* min(a / w, a / h) of two float quotients with the same numerator: the one
\* with the larger denominator (rounding is monotone), as its denominator
FloatMinDen(w, h) == IF w >= h THEN w ELSE h

(***************************************************************************)
(* remove_checkerboard_bg                                                  *)
(***************************************************************************)

\* numpy casts: a value stored in an array of the given integer type
AsInt16(x) == ((x + 32768) % 65536) - 32768

Abs(x) == IF x < 0 THEN 0 - x ELSE x

Maximum(x, y) == IF x >= y THEN x ELSE y

GRAY_MAX_DIFF == 20

GRAY_MIN_BRIGHTNESS == 180

AsUint8(x) == x % 256

\* a slip: the channels left in uint8, where a difference wraps around
max_diff_Uint8(p) ==
    Maximum(Maximum(AsUint8(p[1] - p[2]), AsUint8(p[2] - p[3])), AsUint8(p[1] - p[3]))

\* max_diff of one pixel, in int16 as r, g, b are after astype(np.int16)
max_diff(p) ==
    LET r == AsInt16(p[1])
        g == AsInt16(p[2])
        b == AsInt16(p[3])
    IN  Maximum(Maximum(Abs(AsInt16(r - g)), Abs(AsInt16(g - b))), Abs(AsInt16(r - b)))

\* 3 * brightness of one pixel: brightness = (r + g + b) / 3.0 is the float
\* nearest to a third of this integer
brightness3(p) == AsInt16(AsInt16(AsInt16(p[1]) + AsInt16(p[2])) + AsInt16(p[3]))

\* is_gray of one pixel.  (r + g + b) / 3.0 > 180 exactly when r + g + b > 540:
\* 540 / 3.0 is 180.0 and the division is monotone.
is_gray(p) == max_diff(p) < GRAY_MAX_DIFF /\ brightness3(p) > 3 * GRAY_MIN_BRIGHTNESS

\* what remove_checkerboard_bg makes of one RGBA pixel <<r, g, b, a>>
remove_checkerboard_pixel(p) == IF is_gray(p) THEN <<p[1], p[2], p[3], 0>> ELSE p

(***************************************************************************)
(* Images.  An image is a w x h raster of two colours: the pixels inside   *)
(* the rectangle box = <<x0, y0, x1, y1>> (x1, y1 exclusive, as PIL boxes) *)
(* hold fg, all others hold bg.                                            *)
(***************************************************************************)

Image(w, h, bg, fg, box) == [w |-> w, h |-> h, bg |-> bg, fg |-> fg, box |-> box]

NoBox == <<0, 0, 0, 0>>

InBox(img, x, y) ==
    /\ img.box[1] <= x /\ x < img.box[3]
    /\ img.box[2] <= y /\ y < img.box[4]

PixelAt(img, x, y) == IF InBox(img, x, y) THEN img.fg ELSE img.bg

remove_checkerboard_bg(img) ==
    [img EXCEPT !.bg = remove_checkerboard_pixel(img.bg),
                !.fg = remove_checkerboard_pixel(img.fg)]

\* column x (row y) of img holds a pixel of non-zero alpha
ColOpaque(img, x) ==
    \/ /\ img.fg[4] # 0
       /\ img.box[1] <= x /\ x < img.box[3] /\ img.box[2] < img.box[4]
    \/ /\ img.bg[4] # 0
       /\ ~(/\ img.box[1] <= x /\ x < img.box[3]
            /\ img.box[2] <= 0 /\ img.h <= img.box[4])

RowOpaque(img, y) ==
    \/ /\ img.fg[4] # 0
       /\ img.box[2] <= y /\ y < img.box[4] /\ img.box[1] < img.box[3]
    \/ /\ img.bg[4] # 0
       /\ ~(/\ img.box[2] <= y /\ y < img.box[4]
            /\ img.box[1] <= 0 /\ img.w <= img.box[3])

SetMin(S) == CHOOSE x \in S : \A y \in S : x <= y

SetMax(S) == 0 - SetMin({0 - x : x \in S})

\* Image.getbbox() of an RGBA image: the bounding box of the pixels whose
\* alpha is not zero, or NoBox for None
getbbox(img) ==
    LET cols == {x \in 0..(img.w - 1) : ColOpaque(img, x)}
        rows == {y \in 0..(img.h - 1) : RowOpaque(img, y)}
    IN  IF cols = {} \/ rows = {}
        THEN NoBox
        ELSE <<SetMin(cols), SetMin(rows), SetMax(cols) + 1, SetMax(rows) + 1>>

\* Image.crop(b): the b-sized image holding the pixels of img inside b
crop(img, b) ==
    LET x0 == Maximum(img.box[1], b[1]) - b[1]
        y0 == Maximum(img.box[2], b[2]) - b[2]
        x1 == (IF img.box[3] <= b[3] THEN img.box[3] ELSE b[3]) - b[1]
        y1 == (IF img.box[4] <= b[4] THEN img.box[4] ELSE b[4]) - b[2]
    IN  Image(b[3] - b[1], b[4] - b[2], img.bg, img.fg,
              IF x0 < x1 /\ y0 < y1 THEN <<x0, y0, x1, y1>> ELSE NoBox)

auto_crop_alpha(img) ==
    LET bbox == getbbox(img)
    IN  IF bbox = NoBox THEN img ELSE crop(img, bbox)

\* the largest alpha among the pixels of img (0 when all are transparent)
MaxAlpha(img) ==
    LET hasFg == img.box[1] < img.box[3] /\ img.box[2] < img.box[4]
        hasBg == /\ img.w > 0 /\ img.h > 0
                 /\ ~(img.box[1] <= 0 /\ img.box[2] <= 0
                      /\ img.w <= img.box[3] /\ img.h <= img.box[4])
    IN  Maximum(IF hasFg THEN img.fg[4] ELSE 0, IF hasBg THEN img.bg[4] ELSE 0)

(***************************************************************************)
(* crop_and_center                                                         *)
(***************************************************************************)

TARGET_SIZE == 256

PADDING == 16

MaxDim(target_size) == target_size - PADDING * 2

\* what a call returns: a size x size RGBA canvas on which the rectangle
\* paste = <<x, y, w, h>> received the resized content (NoBox: nothing was
\* pasted) and whose largest alpha is at most alpha; or the exception raised
Returned(size, paste, alpha) ==
    [status |-> "ok", size |-> <<size, size>>, paste |-> paste, alpha |-> alpha]

Raised(what) ==
    [status |-> what, size |-> <<0, 0>>, paste |-> NoBox, alpha |-> 0]

\* Image.resize((new_w, new_h), LANCZOS) followed by the paste onto the
\* canvas: resize raises ValueError("height and width must be > 0") for a
\* size below 1.  The pasted pixels are resampled from those of cropped, with
\* cropped's own alpha as the mask, so an all-transparent source changes
\* nothing on the canvas.
resize_and_paste(cropped, new_w, new_h, target_size) ==
    IF new_w < 1 \/ new_h < 1
    THEN Raised("ValueError")
    ELSE Returned(target_size,
                  <<(target_size - new_w) \div 2, (target_size - new_h) \div 2,
                    new_w, new_h>>,
                  MaxAlpha(cropped))

crop_and_center(cell_img, target_size) ==
    LET cleaned == remove_checkerboard_bg(cell_img)
        cropped == auto_crop_alpha(cleaned)
        w       == cropped.w
        h       == cropped.h
        max_dim == MaxDim(target_size)
        \* ratio = min(max_dim / w, max_dim / h) = max_dim / ratio_den
        ratio_den == FloatMinDen(w, h)
        new_w   == TruncMulQuot(w, max_dim, ratio_den)
        new_h   == TruncMulQuot(h, max_dim, ratio_den)
    IN  IF w = 0 \/ h = 0
        THEN Returned(target_size, NoBox, 0)
        ELSE resize_and_paste(cropped, new_w, new_h, target_size)

(***************************************************************************)
(* The input images the specifications draw from                           *)
(***************************************************************************)

TRANSPARENT == <<0, 0, 0, 0>>

CHECKER == <<200, 200, 205, 255>>

INK == <<200, 50, 50, 255>>

WHITE == <<255, 255, 255, 255>>

BgPixels == {TRANSPARENT, CHECKER}

FgPixels == {INK, WHITE}

\* no content, content everywhere, one pixel in the bottom-right corner, a
\* one-pixel column on the left edge, a one-pixel row on the bottom edge
Boxes(w, h) ==
    IF w = 0 \/ h = 0
    THEN {NoBox}
    ELSE {NoBox, <<0, 0, w, h>>, <<w - 1, h - 1, w, h>>, <<0, 0, 1, h>>,
          <<0, h - 1, w, h>>}

ImagesOfSize(w, h) ==
    {Image(w, h, bg, fg, box) : bg \in BgPixels, fg \in FgPixels, box \in Boxes(w, h)}

\* the cells of a sheet: content on the generator's checkerboard background
SheetCells(w, h) == {Image(w, h, CHECKER, INK, box) : box \in Boxes(w, h)}

(***************************************************************************)
(* main(): the grid of cell rectangles                                     *)
(***************************************************************************)

\* the sheets are 2816 x 1536 (module docstring)
IMG_W == 2816

IMG_H == 1536

num_rows == 4

num_cols == 7

LABEL_MARGIN == 316

CAPTION_TRIM == 120

h_inset == 30

v_inset_top == 12

\* int(x / d) for an exactly representable x / d: truncation towards zero
TruncDiv(x, d) == IF x >= 0 THEN x \div d ELSE 0 - ((0 - x) \div d)

content_width(img_w) == img_w - LABEL_MARGIN

\* a slip: the horizontal inset added on the right instead of subtracted
CellRect_InsetOutwards(img_w, img_h, r, c) ==
    << TruncMulQuot(c, content_width(img_w), num_cols) + h_inset,
       TruncMulQuot(r, img_h, num_rows) + v_inset_top,
       TruncMulQuot(c + 1, content_width(img_w), num_cols) + h_inset,
       TruncDiv(r * img_h + img_h - CAPTION_TRIM * num_rows, num_rows) >>

\* (left, top, right, bottom) of the cell at row r, column c.  row_height =
\* img_h / 4 and monster_height = row_height - 120 are exact in binary, so is
\* r * row_height + monster_height; col_width = content_width / 7 is rounded.
CellRect(img_w, img_h, r, c) ==
    << TruncMulQuot(c, content_width(img_w), num_cols) + h_inset,
       TruncMulQuot(r, img_h, num_rows) + v_inset_top,
       TruncMulQuot(c + 1, content_width(img_w), num_cols) - h_inset,
       TruncDiv(r * img_h + img_h - CAPTION_TRIM * num_rows, num_rows) >>

\* a slip: the column suffix left out of the file name
OutName_NoSuffix(species, suffix) == species \o ".png"

OutName(species, suffix) == species \o suffix \o ".png"

\* a slip: the egg named like the first pose of the species
EggName_AsPose(species) == species \o "-2.png"

EggName(species) == species \o "-1.svg"

MYSTERY_NAME == "mystery-evolution.png"

\* a slip: the first and second stop colours exchanged
generate_egg_svg_Swapped(species, colors) ==
    [stops  |-> <<colors.primary, colors.spot, colors.secondary>>,
     stroke |-> colors.secondary,
     spots  |-> <<colors.spot, colors.spot, colors.spot>>]

\* the document generate_egg_svg returns, by its parameterised attributes
generate_egg_svg(species, colors) ==
    [stops  |-> <<colors.spot, colors.primary, colors.secondary>>,
     stroke |-> colors.secondary,
     spots  |-> <<colors.spot, colors.spot, colors.spot>>]

\* generate_mystery_image: a fixed 256 x 256 RGBA raster
generate_mystery_image == [kind |-> "png", size |-> <<256, 256>>]

(***************************************************************************)
(* main(): the run                                                         *)
(***************************************************************************)

MaxStale == 3

StaleNames == <<"spirit_dog-2.png", "old-monster.png", "mystery-evolution.png",
                "beetle-1.svg", "notes.txt", "thumbs.db">>

StaleFiles == {StaleNames[i] : i \in 1..MaxStale}

StaleDirs == {"backup"}

NoPrior == [exists |-> FALSE, files |-> {}, dirs |-> {}]

Priors ==
    {NoPrior} \cup
    {[exists |-> TRUE, files |-> f, dirs |-> d] :
        f \in SUBSET StaleFiles, d \in SUBSET StaleDirs}

IdleMain ==
    /\ pc = "idle"
    /\ prior = NoPrior
    /\ dirExists = FALSE
    /\ files = {}
    /\ dirs = {}
    /\ contents = <<>>
    /\ pending = {}
    /\ sheetIdx = 1
    /\ row_i = 0
    /\ col_i = 0
    /\ eggIdx = 1
    /\ rects = {}
    /\ log = <<>>
    /\ failedSheet = 0
    /\ total_cropped = 0
    /\ egg_count = 0
    /\ total_files = 0 - 1

\* no image: the value of a variable that holds no image yet
NoImage == Image(0, 0, TRANSPARENT, TRANSPARENT, NoBox)

NotCalled == Raised("not called")

IdleCell == cellIn = NoImage /\ cellOut = NotCalled

IdlePixel == px = NoImage /\ pxOut = NoImage

Init ==
    /\ prior \in Priors
    /\ dirExists = prior.exists
    /\ files = prior.files
    /\ dirs = prior.dirs
    /\ pc = "start"
    /\ contents = <<>>
    /\ pending = {}
    /\ sheetIdx = 1
    /\ row_i = 0
    /\ col_i = 0
    /\ eggIdx = 1
    /\ rects = {}
    /\ log = <<>>
    /\ failedSheet = 0
    /\ total_cropped = 0
    /\ egg_count = 0
    /\ total_files = 0 - 1
    /\ IdleCell
    /\ IdlePixel

\* an unhandled exception ends the process
Abort ==
    /\ pc' = "aborted"
    /\ UNCHANGED <<dirExists, files, dirs, contents, prior, pending, sheetIdx, row_i,
                   col_i, eggIdx, rects, log, total_cropped, egg_count, total_files>>

\* open(path, 'w') or Image.save(path): creates or replaces the file
WriteFile(op, name, data) ==
    /\ files' = files \cup {name}
    /\ contents' = [n \in DOMAIN contents \cup {name} |->
                       IF n = name THEN data ELSE contents[n]]
    /\ log' = Append(log, <<op, name>>)

\* os.path.exists(OUTPUT_DIR) is false: os.makedirs(OUTPUT_DIR)
MakeDirs ==
    /\ pc = "start"
    /\ ~dirExists
    /\ dirExists' = TRUE
    /\ pc' = "open"
    /\ UNCHANGED <<files, dirs, contents, prior, pending, sheetIdx, row_i, col_i,
                   eggIdx, rects, log, failedSheet, total_cropped, egg_count,
                   total_files, cellVars, pixelVars>>

\* a slip: an existing directory left as it is
ListDir_NoClean ==
    /\ pc = "start"
    /\ dirExists
    /\ pc' = "open"
    /\ UNCHANGED <<dirExists, files, dirs, contents, prior, pending, sheetIdx, row_i,
                   col_i, eggIdx, rects, log, failedSheet, total_cropped, egg_count,
                   total_files, cellVars, pixelVars>>

\* os.path.exists(OUTPUT_DIR) is true: os.listdir(OUTPUT_DIR)
ListDir ==
    /\ pc = "start"
    /\ dirExists
    /\ pending' = files \cup dirs
    /\ pc' = IF files \cup dirs = {} THEN "open" ELSE "clean"
    /\ UNCHANGED <<dirExists, files, dirs, contents, prior, sheetIdx, row_i, col_i,
                   eggIdx, rects, log, failedSheet, total_cropped, egg_count,
                   total_files, cellVars, pixelVars>>

\* one os.remove of the clean-up loop, in the order listdir gave (any);
\* os.remove raises on a directory
RemoveEntry ==
    /\ pc = "clean"
    /\ \E f \in pending :
        IF f \in dirs
        THEN Abort /\ UNCHANGED failedSheet
        ELSE /\ files' = files \ {f}
             /\ pending' = pending \ {f}
             /\ log' = Append(log, <<"remove", f>>)
             /\ pc' = IF pending = {f} THEN "open" ELSE "clean"
             /\ UNCHANGED <<dirExists, dirs, contents, prior, sheetIdx, row_i, col_i,
                            eggIdx, rects, failedSheet, total_cropped, egg_count,
                            total_files>>
    /\ UNCHANGED <<cellVars, pixelVars>>

\* a slip: a sheet that cannot be opened is skipped and the run goes on
OpenSheet_SkipsFailed ==
    /\ pc = "open"
    /\ \E ok \in BOOLEAN :
        IF ok
        THEN /\ pc' = "cell"
             /\ row_i' = 0
             /\ col_i' = 0
             /\ rects' = {}
             /\ UNCHANGED <<sheetIdx, failedSheet>>
        ELSE /\ failedSheet' = sheetIdx
             /\ pc' = IF sheetIdx < Len(SHEETS) THEN "open" ELSE "eggs"
             /\ sheetIdx' = IF sheetIdx < Len(SHEETS) THEN sheetIdx + 1 ELSE sheetIdx
             /\ UNCHANGED <<row_i, col_i, rects>>
    /\ UNCHANGED <<dirExists, files, dirs, contents, prior, pending, eggIdx, log,
                   total_cropped, egg_count, total_files, cellVars, pixelVars>>

\* Image.open(filepath).convert('RGBA') of the next sheet: raises when the
\* file is missing or cannot be decoded
OpenSheet ==
    /\ pc = "open"
    /\ \E ok \in BOOLEAN :
        IF ok
        THEN /\ pc' = "cell"
             /\ row_i' = 0
             /\ col_i' = 0
             /\ rects' = {}
             /\ UNCHANGED <<dirExists, files, dirs, contents, prior, pending, sheetIdx,
                            eggIdx, log, failedSheet, total_cropped, egg_count,
                            total_files>>
        ELSE Abort /\ failedSheet' = sheetIdx
    /\ UNCHANGED <<cellVars, pixelVars>>

\* where the loops of main() go after the cell (row_i, col_i) of sheet sheetIdx
AfterCell ==
    IF col_i + 1 < num_cols
    THEN [pc |-> "cell", sheet |-> sheetIdx, row |-> row_i, col |-> col_i + 1]
    ELSE IF row_i + 1 < num_rows
    THEN [pc |-> "cell", sheet |-> sheetIdx, row |-> row_i + 1, col |-> 0]
    ELSE IF sheetIdx < Len(SHEETS)
    THEN [pc |-> "open", sheet |-> sheetIdx + 1, row |-> row_i, col |-> col_i]
    ELSE [pc |-> "eggs", sheet |-> sheetIdx, row |-> row_i, col |-> col_i]

\* one iteration of the inner loop: crop the cell, crop_and_center, save
ProcessCell ==
    /\ pc = "cell"
    /\ LET rect == CellRect(IMG_W, IMG_H, row_i, col_i)
           species == SHEETS[sheetIdx].species[row_i + 1]
           out_name == OutName(species, COL_SUFFIXES[col_i + 1])
       IN  \E cell \in SheetCells(rect[3] - rect[1], rect[4] - rect[2]) :
             LET result == crop_and_center(cell, TARGET_SIZE)
             IN  /\ rects' = rects \cup {<<row_i, col_i, rect>>}
                 /\ IF result.status = "ok"
                    THEN /\ WriteFile("png", out_name,
                                      [kind |-> "png", size |-> result.size])
                         /\ total_cropped' = total_cropped + 1
                         /\ pc' = AfterCell.pc
                         /\ sheetIdx' = AfterCell.sheet
                         /\ row_i' = AfterCell.row
                         /\ col_i' = AfterCell.col
                    ELSE /\ pc' = "aborted"
                         /\ UNCHANGED <<files, contents, log, total_cropped, sheetIdx,
                                        row_i, col_i>>
    /\ UNCHANGED <<dirExists, dirs, prior, pending, eggIdx, failedSheet, egg_count,
                   total_files, cellVars, pixelVars>>

\* one iteration of the egg loop over EGG_COLORS.items()
WriteEgg ==
    /\ pc = "eggs"
    /\ LET species == EGG_SPECIES[eggIdx]
       IN  WriteFile("svg", EggName(species),
                     generate_egg_svg(species, EGG_COLORS[species]))
    /\ egg_count' = egg_count + 1
    /\ eggIdx' = eggIdx + 1
    /\ pc' = IF eggIdx = Len(EGG_SPECIES) THEN "mystery" ELSE "eggs"
    /\ UNCHANGED <<dirExists, dirs, prior, pending, sheetIdx, row_i, col_i, rects,
                   failedSheet, total_cropped, total_files, cellVars, pixelVars>>

WriteMystery ==
    /\ pc = "mystery"
    /\ WriteFile("mystery", MYSTERY_NAME, generate_mystery_image)
    /\ pc' = "summary"
    /\ UNCHANGED <<dirExists, dirs, prior, pending, sheetIdx, row_i, col_i, eggIdx,
                   rects, failedSheet, total_cropped, egg_count, total_files,
                   cellVars, pixelVars>>

\* total_files = len(os.listdir(OUTPUT_DIR))
Summary ==
    /\ pc = "summary"
    /\ total_files' = Cardinality(files \cup dirs)
    /\ pc' = "done"
    /\ UNCHANGED <<dirExists, files, dirs, contents, prior, pending, sheetIdx, row_i,
                   col_i, eggIdx, rects, log, failedSheet, total_cropped, egg_count,
                   cellVars, pixelVars>>

Next ==
    \/ MakeDirs
    \/ ListDir
    \/ RemoveEntry
    \/ OpenSheet
    \/ ProcessCell
    \/ WriteEgg
    \/ WriteMystery
    \/ Summary

Spec == Init /\ [][Next]_vars

(***************************************************************************)
(* SpecCell: one call of crop_and_center                                   *)
(***************************************************************************)

MaxSmall == 24

LargeSpan == 2

\* the size of the cells main() crops from a sheet
CellW == CellRect(IMG_W, IMG_H, 0, 0)[3] - CellRect(IMG_W, IMG_H, 0, 0)[1]

CellH == CellRect(IMG_W, IMG_H, 0, 0)[4] - CellRect(IMG_W, IMG_H, 0, 0)[2]

\* side lengths: none, short ones, those around max_dim, and a sheet cell's
Sides ==
    (0..MaxSmall)
    \cup ((MaxDim(TARGET_SIZE) - LargeSpan)..(MaxDim(TARGET_SIZE) + LargeSpan))
    \cup {CellW, CellH}

CellInputs == UNION {ImagesOfSize(w, h) : w \in Sides, h \in Sides}

InitCell ==
    /\ cellIn \in CellInputs
    /\ cellOut = NotCalled
    /\ IdleMain
    /\ IdlePixel

CallCropAndCenter ==
    /\ cellOut = NotCalled
    /\ cellOut' = crop_and_center(cellIn, TARGET_SIZE)
    /\ UNCHANGED <<cellIn, mainVars, pixelVars>>

NextCell == CallCropAndCenter

SpecCell == InitCell /\ [][NextCell]_vars

(***************************************************************************)
(* SpecPixel: remove_checkerboard_bg on a one-pixel RGBA image             *)
(***************************************************************************)

MAX_CHANNEL == 255

DeltaSlack == 1

\* differences between channels: around 0 and around the gray threshold on
\* either side, and those of the pixels (200,200,205) and (200,50,50)
Deltas ==
    UNION {(c - DeltaSlack)..(c + DeltaSlack) : c \in {0 - GRAY_MAX_DIFF, 0, GRAY_MAX_DIFF}}
    \cup {5, 0 - 150}

Alphas == {0, MAX_CHANNEL}

PixelInputs ==
    {<<r, r + dg, r + db, a>> : r \in 0..MAX_CHANNEL, dg \in Deltas, db \in Deltas,
                                a \in Alphas}
    \cap ((0..MAX_CHANNEL) \X (0..MAX_CHANNEL) \X (0..MAX_CHANNEL) \X Alphas)

InitPixel ==
    /\ \E p \in PixelInputs : px = Image(1, 1, p, p, NoBox)
    /\ pxOut = NoImage
    /\ IdleMain
    /\ IdleCell

CallRemoveCheckerboard ==
    /\ pxOut = NoImage
    /\ pxOut' = remove_checkerboard_bg(px)
    /\ UNCHANGED <<px, mainVars, cellVars>>

NextPixel == CallRemoveCheckerboard

SpecPixel == InitPixel /\ [][NextPixel]_vars

(***************************************************************************)
(* Properties of main()                                                    *)
(***************************************************************************)

\* the entries of the log that are writes, and those of one operation
WriteIdx == {i \in 1..Len(log) : log[i][1] # "remove"}

OpIdx(op) == {i \in 1..Len(log) : log[i][1] = op}

\* the (species, suffix) pairs of the tables
SheetSpecies == {SHEETS[s].species[r] : s \in 1..5, r \in 1..4}

PngPairs == SheetSpecies \X {COL_SUFFIXES[c] : c \in 1..7}

PngNameOf(pair) == pair[1] \o pair[2] \o ".png"

\* the order of the passes: clearing, PNGs, egg SVGs, mystery icon
Rank(op) ==
    CASE op = "remove" -> 0 [] op = "png" -> 1 [] op = "svg" -> 2 [] op = "mystery" -> 3

\* C1: in a successful run exactly one PNG is written per (species, suffix)
\* pair: 140 writes, their names <species><suffix>.png pairwise distinct, and
\* every pair of a sheet species and a column suffix written exactly once.
C1_OnePngPerPair ==
    pc = "done" =>
        /\ Cardinality(OpIdx("png")) = 140
        /\ total_cropped = 140
        /\ Cardinality(PngPairs) = 140
        /\ Cardinality({PngNameOf(pair) : pair \in PngPairs}) = 140
        /\ \A pair \in PngPairs :
              /\ Cardinality({i \in OpIdx("png") : log[i][2] = PngNameOf(pair)}) = 1
              /\ PngNameOf(pair) \in files

C1_Witness ==
    /\ pc = "done"
    /\ total_cropped = 140
    /\ {"spirit_dog-2.png", "sky_dragon-a4.png", "clockwork_bird-b5.png"} \subseteq files

\* the 161 names a run produces
ExpectedFiles ==
    {PngNameOf(pair) : pair \in PngPairs}
    \cup {sp \o "-1.svg" : sp \in DOMAIN EGG_COLORS}
    \cup {"mystery-evolution.png"}

\* C2: whatever OUTPUT_DIR held before the run (absent, empty or stale
\* entries), after a successful run it holds exactly the 161 files (140 PNGs,
\* 20 egg SVGs, mystery-evolution.png) and nothing else.
C2_DirectoryRegenerated ==
    pc = "done" =>
        /\ dirExists
        /\ files = ExpectedFiles
        /\ dirs = {}
        /\ Cardinality(files) = 161
        /\ total_files = 161

C2_Witness ==
    /\ pc = "done"
    /\ {"old-monster.png", "spirit_dog-2.png"} \subseteq prior.files
    /\ "old-monster.png" \notin files

\* C7: the egg pass writes exactly one <species>-1.svg for each of the 20
\* entries of EGG_COLORS, whose egg-grad stops are that species' spot, primary
\* and secondary colours in this order, with the stroke in the secondary colour.
C7_EggPerPaletteEntry ==
    pc \in {"mystery", "summary", "done"} =>
        /\ Cardinality(DOMAIN EGG_COLORS) = 20
        /\ Cardinality(OpIdx("svg")) = 20
        /\ egg_count = 20
        /\ \A sp \in DOMAIN EGG_COLORS :
              /\ Cardinality({i \in OpIdx("svg") : log[i][2] = sp \o "-1.svg"}) = 1
              /\ sp \o "-1.svg" \in files
              /\ contents[sp \o "-1.svg"].stops =
                    <<EGG_COLORS[sp].spot, EGG_COLORS[sp].primary,
                      EGG_COLORS[sp].secondary>>
              /\ contents[sp \o "-1.svg"].stroke = EGG_COLORS[sp].secondary
        /\ contents["spirit_dog-1.svg"].stops = <<"#E8D8C0", "#C8B896", "#A08868">>

C7_Witness ==
    /\ pc = "done"
    /\ egg_count = 20
    /\ contents["spirit_dog-1.svg"].stops = <<"#E8D8C0", "#C8B896", "#A08868">>
    /\ contents["clockwork_bird-1.svg"].stroke = "#707088"

\* the PNGs of the sheets before sheet k
PngsBefore(k) ==
    {SHEETS[s].species[r] \o COL_SUFFIXES[c] \o ".png" :
        s \in 1..(k - 1), r \in 1..4, c \in 1..7}

\* C8: when the k-th sheet cannot be opened the run aborts there: the
\* directory was cleared, it holds the 28*(k-1) PNGs of the earlier sheets and
\* nothing else (no PNG of sheet k or later, no egg SVG, no mystery icon), and
\* the summary's file count is never taken.
C8_AbortAtFailedSheet ==
    failedSheet # 0 =>
        /\ pc = "aborted"
        /\ sheetIdx = failedSheet
        /\ dirExists
        /\ dirs = {}
        /\ files = PngsBefore(failedSheet)
        /\ Cardinality(files) = 28 * (failedSheet - 1)
        /\ Cardinality(WriteIdx) = 28 * (failedSheet - 1)
        /\ egg_count = 0
        /\ total_files = 0 - 1

C8_Witness ==
    /\ failedSheet = 3
    /\ Cardinality(files) = 56
    /\ prior.files # {}
    /\ "seed_ball-b5.png" \in files
    /\ "jellyfish-2.png" \notin files

\* C9: the passes run in sequence: every removal of the clearing precedes
\* every write, every PNG write precedes every egg SVG write, every egg SVG
\* write precedes the mystery icon's; no two writes target the same path and
\* no written file is removed again; a complete run makes 161 writes.
C9_PassesInSequence ==
    /\ \A i \in 1..(Len(log) - 1) : Rank(log[i][1]) <= Rank(log[i + 1][1])
    /\ Cardinality({log[i][2] : i \in WriteIdx}) = Cardinality(WriteIdx)
    /\ \A i \in WriteIdx : log[i][2] \in files
    /\ pc = "done" =>
          /\ Cardinality(WriteIdx) = 161
          /\ Cardinality(OpIdx("png")) = 140
          /\ Cardinality(OpIdx("svg")) = 20
          /\ Cardinality(OpIdx("mystery")) = 1

C9_Witness ==
    /\ pc = "done"
    /\ Cardinality(OpIdx("remove")) = 3
    /\ Cardinality(WriteIdx) = 161

Disjoint(a, b) == a[3] <= b[1] \/ b[3] <= a[1] \/ a[4] <= b[2] \/ b[4] <= a[2]

\* C10: for a 2816 x 1536 sheet every cell rectangle (left, top, right,
\* bottom) has positive width and height, lies inside the image and left of
\* the 316 px label margin, ends above the next row's top, and no two
\* rectangles of the sheet overlap.
C10_CellRectangles ==
    /\ \A e \in rects :
          LET r == e[1]
              rect == e[3]
          IN  /\ rect[1] < rect[3] /\ rect[2] < rect[4]
              /\ 0 <= rect[1] /\ 0 <= rect[2]
              /\ rect[3] <= 2816 - 316
              /\ rect[4] <= 1536
              /\ r < 3 => rect[4] < 384 * (r + 1) + 12
    /\ \A e1 \in rects : \A e2 \in rects :
          e1 # e2 => /\ <<e1[1], e1[2]>> # <<e2[1], e2[2]>>
                     /\ Disjoint(e1[3], e2[3])
    /\ pc \in {"open", "eggs"} /\ total_cropped > 0 => Cardinality(rects) = 28

C10_Witness ==
    /\ Cardinality(rects) = 28
    /\ <<3, 6, <<2172, 1164, 2470, 1416>>>> \in rects
    /\ <<0, 0, <<30, 12, 327, 264>>>> \in rects

(***************************************************************************)
(* Properties of remove_checkerboard_bg                                    *)
(***************************************************************************)

Dist(x, y) == IF x >= y THEN x - y ELSE y - x

\* the claim's classification of an (r, g, b) triple
ClaimGray(p) ==
    /\ \A d \in {Dist(p[1], p[2]), Dist(p[2], p[3]), Dist(p[1], p[3])} : d < 20
    /\ p[1] + p[2] + p[3] > 3 * 180

ContentBox == getbbox(remove_checkerboard_bg(cellIn))

\* C3: crop_and_center returns a 256 x 256 image, without raising, for every
\* input cell, whatever its size and the size of its content's bounding box.
C3_AlwaysTargetSize ==
    cellOut # NotCalled =>
        /\ cellOut.status = "ok"
        /\ cellOut.size = <<256, 256>>

\* C4: a cell of any size with no non-transparent pixel left after the
\* checkerboard removal yields a fully transparent 256 x 256 canvas, with no
\* exception.
C4_BlankCellGivesBlankCanvas ==
    cellOut # NotCalled /\ ContentBox = NoBox =>
        /\ cellOut.status = "ok"
        /\ cellOut.size = <<256, 256>>
        /\ cellOut.alpha = 0

\* C6: for every cell whose content has a bounding box of w x h pixels
\* (w, h >= 1) the content is scaled by one factor to a longer side of at most
\* 224 and pasted at ((256 - new_w) div 2, (256 - new_h) div 2): inside the
\* canvas with at least 16 px of padding on every side, the leading margin on
\* each axis equal to the trailing one or exactly 1 smaller.
C6_ScaledAndCentred ==
    cellOut # NotCalled /\ ContentBox # NoBox =>
        LET x == cellOut.paste[1]
            y == cellOut.paste[2]
            new_w == cellOut.paste[3]
            new_h == cellOut.paste[4]
        IN  /\ cellOut.status = "ok"
            /\ new_w >= 1 /\ new_h >= 1
            /\ new_w <= 224 /\ new_h <= 224
            /\ x = (256 - new_w) \div 2 /\ y = (256 - new_h) \div 2
            /\ x >= 16 /\ y >= 16
            /\ x + new_w <= 256 - 16 /\ y + new_h <= 256 - 16
            /\ (256 - new_w - x) - x \in {0, 1}
            /\ (256 - new_h - y) - y \in {0, 1}

====
